---- MODULE Spec2Model ----
(***************************************************************************)
(* Batch claim-dispatch-reconcile job of the video-context repository.     *)
(*                                                                         *)
(* src/main.py is the Cloud Run Job: it reads PENDING rows from a BigQuery *)
(* table, marks them PROCESSING, calls the URL processor service for each  *)
(* row through a thread pool and writes every outcome back.                *)
(* src/Cloud_Run_Function/generate_video_insights/main.py is the URL       *)
(* processor service the job calls.                                        *)
(*                                                                         *)
(* Several job instances (Jobs) run against the same tables. Every store   *)
(* statement and every step of the thread pool is one action, so that all  *)
(* interleavings of the instances are explored. Strings are TLA+ strings:  *)
(* the messages are built with \o exactly as the f-strings build them.     *)
(***************************************************************************)
EXTENDS Integers, Sequences, FiniteSets, TLC

VARIABLES
    environ,            \* os.environ of the deployment
    tables,             \* the BigQuery tables: table name -> id -> row
    pc,                 \* where each job instance is in process_batch_from_bq
    pending_urls_data,  \* per job: the fetched rows, in the order returned
    futures,            \* per job: the list of (row_id, future)
    cursor,             \* per job: position of the running for-loop
    processed_results,  \* per job: the dict of outcomes, in insertion order
    successful_updates, \* per job: the counter of Step 4
    result,             \* per job: what the invocation returned or raised
    statements,         \* history: the store statements each job issued
    observed,           \* history: what future.result gave for each future
    terminal_seen,      \* history: rows that were written a terminal status
    sealed              \* history: terminal_seen when the job started

vars == <<environ, tables, pc, pending_urls_data, futures, cursor,
          processed_results, successful_updates, result, statements,
          observed, terminal_seen, sealed>>

----------------------------------------------------------------------------
(* Bounds of the model *)

\* number of job instances that may run (sequentially or overlapping)
NumJobs == 2

\* number of rows of the source table
NumItems == 2

Jobs == 1..NumJobs

ItemNos == 1..NumItems

----------------------------------------------------------------------------
(* Strings *)

\* startswith that looks at the first character only
StartsWith_FirstChar(s, prefix) ==
    /\ Len(s) >= 1
    /\ SubSeq(s, 1, 1) = SubSeq(prefix, 1, 1)

\* str.startswith
StartsWith(s, prefix) ==
    /\ Len(s) >= Len(prefix)
    /\ SubSeq(s, 1, Len(prefix)) = prefix

\* the `in` test on two strings
Contains(s, sub) ==
    \E k \in 1..(Len(s) - Len(sub) + 1) : SubSeq(s, k, k + Len(sub) - 1) = sub

\* the id column of row n (ids are opaque strings)
IdOf(n) == ToString(n + 6)

\* the url column of row n
UrlOf(n) == "https://youtu.be/" \o SubSeq("abcdefgh", n, n)

Ids == {IdOf(n) : n \in ItemNos}

UrlOfId(id) == UrlOf(CHOOSE n \in ItemNos : IdOf(n) = id)

----------------------------------------------------------------------------
(* Configuration: src/main.py lines 13-20 *)

\* marks an environment variable that is not set
Unset == "<unset>"

DefaultProcessorUrl ==
    "https://python-video-context-YOUR_PROJECT_NUMBER.us-central1.run.app"

\* os.environ.get(name): None (falsy, here "") when the variable is not set
EnvGet(name) == IF environ[name] = Unset THEN "" ELSE environ[name]

\* os.environ.get(name, default)
EnvGetDefault(name, default) ==
    IF environ[name] = Unset THEN default ELSE environ[name]

BIGQUERY_TABLE_SOURCE == EnvGet("BIGQUERY_TABLE_SOURCE")

BIGQUERY_TABLE_TARGET == EnvGet("BIGQUERY_TABLE_TARGET")

URL_PROCESSOR_SERVICE_URL ==
    EnvGetDefault("URL_PROCESSOR_SERVICE_URL", DefaultProcessorUrl)

BATCH_SIZE == 5

MAX_CONCURRENT_TASKS_PER_INSTANCE == 5

\* the tables of the dataset
TableNames == {"videos", "results"}

Env(source, target, url) ==
    [ BIGQUERY_TABLE_SOURCE |-> source,
      BIGQUERY_TABLE_TARGET |-> target,
      URL_PROCESSOR_SERVICE_URL |-> url ]

\* the environments the job is deployed with: results written to the source
\* table or to another table, and each setting missing in turn
Environments ==
    { Env("videos", "videos", "https://svc.run.app"),
      Env("videos", "results", Unset),
      Env("videos", Unset, "https://svc.run.app"),
      Env(Unset, "videos", "https://svc.run.app"),
      Env("videos", "videos", "") }

----------------------------------------------------------------------------
(* The URL processor service:
   src/Cloud_Run_Function/generate_video_insights/main.py *)

\* what client.models.generate_content does for one prompt: it returns a
\* response whose text is arbitrary model output, or it raises
GenerateOutcomes ==
    { [kind |-> "text", text |-> "{\"chapter_title\": \"Lab\"}"],
      [kind |-> "text", text |-> "ERROR: no video at this URL"],
      [kind |-> "raise", text |-> "quota exceeded"] }

\* process_videos_batch: the text of the response, or the message of the
\* except branch
process_videos_batch(video_url, gen) ==
    IF gen.kind = "raise"
    THEN "Error processing video: " \o gen.text
    ELSE gen.text

\* hello_http: the body of the HTTP response (always sent with status 200)
hello_http(name, gen) == process_videos_batch(name, gen)

----------------------------------------------------------------------------
(* The processing client: src/main.py lines 36-70 *)

\* what requests.post and raise_for_status do for one call: the service
\* answers (with whatever generate_content did), the request times out,
\* fails (connection error, 4xx/5xx status), or something else is raised
RequestOutcomes ==
    { [kind |-> "response", gen |-> g] : g \in GenerateOutcomes }
    \cup { [kind |-> "Timeout", e |-> "read timed out"],
           [kind |-> "RequestException", e |-> "503 Server Error"],
           [kind |-> "Exception", e |-> "bad payload"] }

\* call_url_processor_service: always returns a string
call_url_processor_service(url, req) ==
    CASE req.kind = "response" -> hello_http(url, req.gen)
      [] req.kind = "Timeout" ->
            "ERROR: Timeout processing '" \o url \o "' at "
                \o URL_PROCESSOR_SERVICE_URL
      [] req.kind = "RequestException" ->
            "ERROR: Request failed for '" \o url \o "'. Details: " \o req.e
      [] OTHER ->
            "ERROR: Unexpected error for '" \o url \o "'. Details: " \o req.e

----------------------------------------------------------------------------
(* The dispatcher's classification: src/main.py lines 178-191 *)

\* Classify that names no row in the message of a TimeoutError
Classify_TimeoutNoId(row_id, got) ==
    CASE got.kind = "content" ->
            IF StartsWith(got.text, "ERROR:")
            THEN [context |-> got.text, status |-> "FAILED_PROCESSING"]
            ELSE [context |-> got.text, status |-> "COMPLETED"]
      [] got.kind = "TimeoutError" ->
            [context |-> "ERROR: Processing timed out.",
             status |-> "FAILED_PROCESSING"]
      [] OTHER ->
            [context |-> "ERROR: Unexpected error during result retrieval for '"
                            \o row_id \o "'. Details: " \o got.text,
             status |-> "FAILED_PROCESSING"]

\* what future.result(timeout=...) gives: the returned content, TimeoutError
\* or another exception
Classify(row_id, got) ==
    CASE got.kind = "content" ->
            IF StartsWith(got.text, "ERROR:")
            THEN [context |-> got.text, status |-> "FAILED_PROCESSING"]
            ELSE [context |-> got.text, status |-> "COMPLETED"]
      [] got.kind = "TimeoutError" ->
            [context |-> "ERROR: Processing timed out for '" \o row_id \o "'.",
             status |-> "FAILED_PROCESSING"]
      [] OTHER ->
            [context |-> "ERROR: Unexpected error during result retrieval for '"
                            \o row_id \o "'. Details: " \o got.text,
             status |-> "FAILED_PROCESSING"]

\* DictSet that keeps no entry for a failed item
DictSet_DropFailed(d, row_id, data) ==
    IF data.status = "FAILED_PROCESSING"
    THEN d
    ELSE Append(d, [id |-> row_id, data |-> data])

\* processed_results[row_id] = data on a dict kept in insertion order
DictSet(d, row_id, data) ==
    IF \E k \in 1..Len(d) : d[k].id = row_id
    THEN [k \in 1..Len(d) |->
            IF d[k].id = row_id THEN [id |-> row_id, data |-> data] ELSE d[k]]
    ELSE Append(d, [id |-> row_id, data |-> data])

----------------------------------------------------------------------------
(* State *)

Terminal == {"COMPLETED", "FAILED_PROCESSING"}

NoResult == [kind |-> "none", msg |-> "", code |-> 0]

Return(msg, code) == [kind |-> "return", msg |-> msg, code |-> code]

Raise(msg) == [kind |-> "raise", msg |-> msg, code |-> 0]

\* all orders in which the rows of the set S can be returned
Orders(S) ==
    { q \in [1..Cardinality(S) -> S] :
        \A a, b \in 1..Cardinality(S) : a # b => q[a] # q[b] }

Min(a, b) == IF a < b THEN a ELSE b

Range(q) == {q[k] : k \in 1..Len(q)}

\* a history entry: one statement sent to the store, the ids it names and
\* how it ended
Stmt(op, ids, outcome) == [op |-> op, ids |-> ids, outcome |-> outcome]

\* a row as it is before any run of the job, and a row an earlier run of the
\* job completed
InitialRows(id) ==
    { [url |-> UrlOfId(id), status |-> "PENDING", context |-> ""],
      [url |-> UrlOfId(id), status |-> "COMPLETED",
       context |-> "{\"chapter_title\": \"Old\"}"] }

Init ==
    /\ environ \in Environments
    /\ \E rows \in [Ids -> UNION {InitialRows(id) : id \in Ids}] :
          /\ \A id \in Ids : rows[id] \in InitialRows(id)
          /\ tables = [t \in TableNames |-> rows]
          /\ terminal_seen =
                {<<t, id>> \in TableNames \X Ids : rows[id].status \in Terminal}
    /\ pc = [j \in Jobs |-> "init"]
    /\ pending_urls_data = [j \in Jobs |-> <<>>]
    /\ futures = [j \in Jobs |-> <<>>]
    /\ cursor = [j \in Jobs |-> 0]
    /\ processed_results = [j \in Jobs |-> <<>>]
    /\ successful_updates = [j \in Jobs |-> 0]
    /\ result = [j \in Jobs |-> NoResult]
    /\ statements = [j \in Jobs |-> <<>>]
    /\ observed = [j \in Jobs |-> <<>>]
    /\ sealed = [j \in Jobs |-> {}]

\* the variables that live in the memory of the job's process
locals == <<pending_urls_data, futures, cursor, processed_results,
            successful_updates, observed>>

\* the invocation ends: it returns (msg, code) or the exception propagates,
\* and the process exits (its memory is gone)
Finish(j, res) ==
    /\ pc' = [pc EXCEPT ![j] = "done"]
    /\ result' = [result EXCEPT ![j] = res]
    /\ pending_urls_data' = [pending_urls_data EXCEPT ![j] = <<>>]
    /\ futures' = [futures EXCEPT ![j] = <<>>]
    /\ cursor' = [cursor EXCEPT ![j] = 0]
    /\ processed_results' = [processed_results EXCEPT ![j] = <<>>]
    /\ successful_updates' = [successful_updates EXCEPT ![j] = 0]
    /\ observed' = [observed EXCEPT ![j] = <<>>]

\* the invocation goes on at position p
Goto(j, p) ==
    /\ pc' = [pc EXCEPT ![j] = p]
    /\ UNCHANGED result

----------------------------------------------------------------------------
(* Module load and the configuration checks: lines 13-32 and 110-115 *)

Startup(j) ==
    /\ pc[j] = "init"
    /\ sealed' = [sealed EXCEPT ![j] = terminal_seen]
    /\ \E client_ok \in BOOLEAN :
         IF ~client_ok
         THEN Finish(j, Raise("Failed to initialize BigQuery client"))
         ELSE IF URL_PROCESSOR_SERVICE_URL = ""
         THEN Finish(j, Raise("URL_PROCESSOR_SERVICE_URL must be set."))
         ELSE IF BIGQUERY_TABLE_SOURCE = ""
         THEN Finish(j, Return(
                "Configuration error: BIGQUERY_TABLE_SOURCE is not set.", 500))
         ELSE /\ Goto(j, "fetch")
              /\ UNCHANGED locals
    /\ UNCHANGED <<environ, tables, statements, terminal_seen>>

----------------------------------------------------------------------------
(* The except clauses of process_batch_from_bq: lines 204-210 *)

\* HandleException without the `except NotFound` clause
HandleException_NoNotFound(exc) ==
    Raise("An unhandled error occurred in the job")

\* HandleException that answers every error as an absent table
HandleException_AlwaysNotFound(exc) ==
    Return("Source table not found.", 404)

HandleException(exc) ==
    IF exc = "NotFound"
    THEN Return("Source table not found.", 404)
    ELSE Raise("An unhandled error occurred in the job")

----------------------------------------------------------------------------
(* Step 1, fetch: lines 122-146 *)

\* NoPendingRows that never takes the early return
NoPendingRows_Never(rows) == FALSE

\* `if not pending_urls_data` (line 139)
NoPendingRows(rows) == Len(rows) = 0

\* PendingIds without the WHERE clause: every row matches
PendingIds_NoFilter(table) == DOMAIN tables[table]

\* SELECT url, id FROM source WHERE status = 'PENDING'
PendingIds(table) ==
    {id \in DOMAIN tables[table] : tables[table][id].status = "PENDING"}

\* QueryPending without the LIMIT clause: all matching rows
QueryPending_NoLimit(table) == Orders(PendingIds(table))

\* ... LIMIT BATCH_SIZE: any BATCH_SIZE of the matching rows, in any order
QueryPending(table) ==
    UNION { Orders(S) :
              S \in { T \in SUBSET PendingIds(table) :
                        Cardinality(T) =
                            Min(BATCH_SIZE, Cardinality(PendingIds(table))) } }

FetchPending(j) ==
    /\ pc[j] = "fetch"
    /\ \E outcome \in {"ok", "NotFound", "Error"} :
         CASE outcome = "ok" ->
                \E rows \in QueryPending(BIGQUERY_TABLE_SOURCE) :
                   /\ statements' = [statements EXCEPT ![j] =
                         Append(@, Stmt("fetch", Range(rows), outcome))]
                   /\ IF NoPendingRows(rows)
                      THEN Finish(j, Return(
                             "No pending URLs found. Job finished.", 200))
                      ELSE /\ pending_urls_data' =
                                [pending_urls_data EXCEPT ![j] =
                                   [k \in 1..Len(rows) |->
                                      [url |-> tables[BIGQUERY_TABLE_SOURCE]
                                                     [rows[k]].url,
                                       id |-> rows[k]]]]
                           /\ Goto(j, "claim")
                           /\ UNCHANGED <<futures, cursor, processed_results,
                                          successful_updates, observed>>
           [] OTHER ->
                /\ statements' = [statements EXCEPT ![j] =
                      Append(@, Stmt("fetch", {}, outcome))]
                /\ Finish(j, HandleException(outcome))
    /\ UNCHANGED <<environ, tables, terminal_seen, sealed>>

----------------------------------------------------------------------------
(* Step 2, claim: lines 146-163 *)

\* row_ids_to_process that takes the id of the first fetched row only
row_ids_to_process_FirstOnly(j) ==
    [k \in 1..Min(1, Len(pending_urls_data[j])) |-> pending_urls_data[j][k].id]

\* line 146: the ids of the fetched rows
row_ids_to_process(j) ==
    [k \in 1..Len(pending_urls_data[j]) |-> pending_urls_data[j][k].id]

\* UpdateStatusQuery that marks only the first id of the list
UpdateStatusQuery_FirstOnly(table, row_ids) ==
    [tables EXCEPT ![table] =
        [id \in DOMAIN tables[table] |->
            IF Len(row_ids) > 0 /\ id = row_ids[1]
            THEN [tables[table][id] EXCEPT !.status = "PROCESSING"]
            ELSE tables[table][id]]]

\* UPDATE source SET status = 'PROCESSING' WHERE id IN UNNEST(@row_ids)
UpdateStatusQuery(table, row_ids) ==
    [tables EXCEPT ![table] =
        [id \in DOMAIN tables[table] |->
            IF id \in Range(row_ids)
            THEN [tables[table][id] EXCEPT !.status = "PROCESSING"]
            ELSE tables[table][id]]]

ClaimBatch(j) ==
    /\ pc[j] = "claim"
    /\ \E outcome \in {"ok", "NotFound", "Error"} :
         /\ statements' = [statements EXCEPT ![j] =
               Append(@, Stmt("claim", Range(row_ids_to_process(j)), outcome))]
         /\ CASE outcome = "ok" ->
                   /\ tables' = UpdateStatusQuery(BIGQUERY_TABLE_SOURCE,
                                                  row_ids_to_process(j))
                   /\ Goto(j, "submit")
                   /\ UNCHANGED locals
              [] OTHER ->
                   /\ Finish(j, HandleException(outcome))
                   /\ UNCHANGED tables
    /\ UNCHANGED <<environ, terminal_seen, sealed>>

----------------------------------------------------------------------------
(* Step 3, the thread pool: lines 165-191 *)

Running(fs) == {k \in 1..Len(fs) : fs[k].state = "running"}

Queued(fs) == {k \in 1..Len(fs) : fs[k].state = "queued"}

\* FinishedFuture that does not count a task that ended with an exception
FinishedFuture_ReturnedOnly(f) == f.state = "returned"

\* Future.done()
FinishedFuture(f) == f.state \in {"returned", "raised"}

\* a future: the state of the task, its result once it has one, and (as
\* history) what the HTTP request of the task did
NewFuture(row_id, state) ==
    [row_id |-> row_id, state |-> state, text |-> "", req |-> "none"]

\* the for-loop of executor.submit (lines 170-175): the pool starts a thread
\* per task up to max_workers, the other tasks wait in its queue
SubmitAll(j) ==
    /\ pc[j] = "submit"
    /\ futures' = [futures EXCEPT ![j] =
          [k \in 1..Len(pending_urls_data[j]) |->
              NewFuture(pending_urls_data[j][k].id,
                        IF k <= MAX_CONCURRENT_TASKS_PER_INSTANCE
                        THEN "running" ELSE "queued")]]
    /\ processed_results' = [processed_results EXCEPT ![j] = <<>>]
    /\ cursor' = [cursor EXCEPT ![j] = 1]
    /\ Goto(j, "collect")
    /\ UNCHANGED <<environ, tables, pending_urls_data, successful_updates,
                   statements, observed, terminal_seen, sealed>>

\* the thread that ends a task takes the next task of the queue
TakeNext(fs) ==
    IF Queued(fs) = {}
    THEN fs
    ELSE LET n == CHOOSE k \in Queued(fs) : \A m \in Queued(fs) : k <= m
         IN  [fs EXCEPT ![n].state = "running"]

\* a worker thread ends call_url_processor_service for its task: the
\* function returns its string for one of the request outcomes reqs
WorkerReturn(j, k, reqs) ==
    /\ pc[j] \in {"collect", "join"}
    /\ k \in Running(futures[j])
    /\ \E req \in reqs :
          futures' = [futures EXCEPT ![j] = TakeNext(
              [@ EXCEPT ![k].state = "returned",
                        ![k].text = call_url_processor_service(
                                       pending_urls_data[j][k].url, req),
                        ![k].req = IF req.kind = "response"
                                   THEN "generate_" \o req.gen.kind
                                   ELSE req.kind])]
    /\ UNCHANGED <<environ, tables, pc, pending_urls_data, cursor,
                   processed_results, successful_updates, result,
                   statements, observed, terminal_seen, sealed>>

\* a worker thread ends its task with an exception that leaves
\* call_url_processor_service (one raised while an except branch runs)
WorkerRaise(j, k) ==
    /\ pc[j] \in {"collect", "join"}
    /\ k \in Running(futures[j])
    /\ futures' = [futures EXCEPT ![j] = TakeNext(
              [@ EXCEPT ![k].state = "raised",
                        ![k].text = "raised while handling an error",
                        ![k].req = "raised"])]
    /\ UNCHANGED <<environ, tables, pc, pending_urls_data, cursor,
                   processed_results, successful_updates, result,
                   statements, observed, terminal_seen, sealed>>

\* future.result(timeout=...): the result of a finished future, or
\* TimeoutError when the wait ends on a future that has not finished
FutureResult(f) ==
    CASE f.state = "returned" -> [kind |-> "content", text |-> f.text]
      [] f.state = "raised" -> [kind |-> "Exception", text |-> f.text]
      [] OTHER -> [kind |-> "TimeoutError", text |-> ""]

\* one iteration of the for-loop over futures (lines 178-191)
CollectFuture(j) ==
    /\ pc[j] = "collect"
    /\ cursor[j] <= Len(futures[j])
    /\ LET f == futures[j][cursor[j]]
           got == FutureResult(f)
       IN  /\ processed_results' = [processed_results EXCEPT ![j] =
                  DictSet(@, f.row_id, Classify(f.row_id, got))]
           /\ observed' = [observed EXCEPT ![j] = Append(@, got)]
    /\ cursor' = [cursor EXCEPT ![j] = @ + 1]
    /\ Goto(j, IF cursor[j] = Len(futures[j]) THEN "join" ELSE "collect")
    /\ UNCHANGED <<environ, tables, pending_urls_data, futures,
                   successful_updates, statements, terminal_seen, sealed>>

\* leaving the with-block (line 191): shutdown(wait=True) returns when every
\* submitted task has ended
PoolJoin(j) ==
    /\ pc[j] = "join"
    /\ \A k \in 1..Len(futures[j]) : FinishedFuture(futures[j][k])
    /\ Goto(j, "write")
    /\ cursor' = [cursor EXCEPT ![j] = 1]
    /\ successful_updates' = [successful_updates EXCEPT ![j] = 0]
    /\ UNCHANGED <<environ, tables, pending_urls_data, futures,
                   processed_results, statements, observed, terminal_seen,
                   sealed>>

----------------------------------------------------------------------------
(* Step 4, write the results back: lines 74-103 and 193-202 *)

\* UpdateQuery without the WHERE clause: every row of the table is set
UpdateQuery_NoWhere(table, row_id, context, status) ==
    [tables EXCEPT ![table] =
        [id \in DOMAIN tables[table] |->
            [tables[table][id] EXCEPT !.context = context,
                                      !.status = status]]]

\* UPDATE target SET context = @context, status = @status WHERE id = @row_id
UpdateQuery(table, row_id, context, status) ==
    [tables EXCEPT ![table] =
        [id \in DOMAIN tables[table] |->
            IF id = row_id
            THEN [tables[table][id] EXCEPT !.context = context,
                                           !.status = status]
            ELSE tables[table][id]]]

\* CompleteMsg with its two numbers in each other's place
CompleteMsg_Swapped(n, updated) ==
    "Batch processing complete. Processed " \o ToString(updated)
        \o " URLs, updated " \o ToString(n) \o "."

\* the message of line 202
CompleteMsg(n, updated) ==
    "Batch processing complete. Processed " \o ToString(n)
        \o " URLs, updated " \o ToString(updated) \o "."

\* WriteNext that gives up the loop when update_bq_row returned False
WriteNext_StopOnFailure(j, updated) ==
    LET count == successful_updates[j] + (IF updated THEN 1 ELSE 0)
    IN  IF cursor[j] = Len(processed_results[j]) \/ ~updated
        THEN Finish(j, Return(
                CompleteMsg(Len(processed_results[j]), count), 200))
        ELSE /\ successful_updates' =
                    [successful_updates EXCEPT ![j] = count]
             /\ cursor' = [cursor EXCEPT ![j] = @ + 1]
             /\ Goto(j, "write")
             /\ UNCHANGED <<pending_urls_data, futures, processed_results,
                            observed>>

\* WriteNext that stays on the same outcome when update_bq_row returned
\* False (a retry of the write)
WriteNext_Repeat(j, updated) ==
    LET count == successful_updates[j] + (IF updated THEN 1 ELSE 0)
    IN  IF cursor[j] = Len(processed_results[j]) /\ updated
        THEN Finish(j, Return(
                CompleteMsg(Len(processed_results[j]), count), 200))
        ELSE /\ successful_updates' =
                    [successful_updates EXCEPT ![j] = count]
             /\ cursor' = [cursor EXCEPT ![j] =
                              IF updated THEN @ + 1 ELSE @]
             /\ Goto(j, "write")
             /\ UNCHANGED <<pending_urls_data, futures, processed_results,
                            observed>>

\* the end of one iteration of the write loop: update_bq_row returned
\* `updated`; after the last iteration the function returns (line 202)
WriteNext(j, updated) ==
    LET count == successful_updates[j] + (IF updated THEN 1 ELSE 0)
    IN  IF cursor[j] = Len(processed_results[j])
        THEN Finish(j, Return(
                CompleteMsg(Len(processed_results[j]), count), 200))
        ELSE /\ successful_updates' =
                    [successful_updates EXCEPT ![j] = count]
             /\ cursor' = [cursor EXCEPT ![j] = @ + 1]
             /\ Goto(j, "write")
             /\ UNCHANGED <<pending_urls_data, futures, processed_results,
                            observed>>

\* one iteration of the for-loop over processed_results (lines 196-198),
\* update_bq_row (lines 74-103) included
WriteResult(j) ==
    /\ pc[j] = "write"
    /\ cursor[j] <= Len(processed_results[j])
    /\ LET entry == processed_results[j][cursor[j]]
       IN  IF BIGQUERY_TABLE_TARGET = ""
           THEN /\ WriteNext(j, FALSE)
                /\ UNCHANGED <<tables, statements, terminal_seen>>
           ELSE \E outcome \in {"ok", "Error"} :
                  /\ statements' = [statements EXCEPT ![j] =
                        Append(@, Stmt("write", {entry.id}, outcome))]
                  /\ IF outcome = "ok"
                     THEN /\ tables' = UpdateQuery(BIGQUERY_TABLE_TARGET,
                                          entry.id, entry.data.context,
                                          entry.data.status)
                          /\ terminal_seen' = terminal_seen \cup
                                {<<BIGQUERY_TABLE_TARGET, entry.id>>}
                          /\ WriteNext(j, TRUE)
                     ELSE /\ WriteNext(j, FALSE)
                          /\ UNCHANGED <<tables, terminal_seen>>
    /\ UNCHANGED <<environ, sealed>>

----------------------------------------------------------------------------
(* The system *)

\* no other instance of the job is running
Alone(j) == \A i \in Jobs \ {j} : pc[i] \in {"init", "done"}

\* the steps of a started instance, its HTTP requests ending as one of reqs
Steps(j, reqs) ==
    \/ FetchPending(j)
    \/ ClaimBatch(j)
    \/ SubmitAll(j)
    \/ \E k \in DOMAIN futures[j] : WorkerReturn(j, k, reqs)
    \/ \E k \in DOMAIN futures[j] : WorkerRaise(j, k)
    \/ CollectFuture(j)
    \/ PoolJoin(j)
    \/ WriteResult(j)

\* Spec: the job runs as scheduled, one invocation after the other, and the
\* HTTP requests end in every way
Next ==
    \/ \E j \in Jobs : Alone(j) /\ Startup(j)
    \/ \E j \in Jobs : Steps(j, RequestOutcomes)

Spec == Init /\ [][Next]_vars

\* the ways a request ends that are told apart in SpecOverlap: one that
\* completes the item and one that fails it
OverlapOutcomes ==
    { r \in RequestOutcomes :
        \/ r.kind = "Timeout"
        \/ r.kind = "response" /\ r.gen.kind = "text"
                               /\ ~StartsWith(r.gen.text, "ERROR:") }

\* SpecOverlap: instances of the job start at any time and overlap
NextOverlap ==
    \/ \E j \in Jobs : Startup(j)
    \/ \E j \in Jobs : Steps(j, OverlapOutcomes)

SpecOverlap == Init /\ [][NextOverlap]_vars

\* the rows of a table that holds one pending row more than a batch takes
BatchRows ==
    [id \in {IdOf(n) : n \in 1..(BATCH_SIZE + 1)} |->
        [url |-> UrlOf(CHOOSE n \in 1..(BATCH_SIZE + 1) : IdOf(n) = id),
         status |-> "PENDING", context |-> ""]]

InitBatch ==
    /\ environ = Env("videos", "videos", "https://svc.run.app")
    /\ tables = [t \in TableNames |-> BatchRows]
    /\ terminal_seen = {}
    /\ pc = [j \in Jobs |-> "init"]
    /\ pending_urls_data = [j \in Jobs |-> <<>>]
    /\ futures = [j \in Jobs |-> <<>>]
    /\ cursor = [j \in Jobs |-> 0]
    /\ processed_results = [j \in Jobs |-> <<>>]
    /\ successful_updates = [j \in Jobs |-> 0]
    /\ result = [j \in Jobs |-> NoResult]
    /\ statements = [j \in Jobs |-> <<>>]
    /\ observed = [j \in Jobs |-> <<>>]
    /\ sealed = [j \in Jobs |-> {}]

\* the one way a request ends in SpecBatch: the service answers with text
BatchOutcomes ==
    { r \in RequestOutcomes :
        r.kind = "response" /\ r.gen.kind = "text"
                            /\ ~StartsWith(r.gen.text, "ERROR:") }

\* the position of a row of BatchRows in the table
RowNo(id) == CHOOSE n \in 1..(BATCH_SIZE + 1) : IdOf(n) = id

\* the rows come in the order of the table
InTableOrder(rows) ==
    \A a, b \in 1..Len(rows) : a < b => RowNo(rows[a].id) < RowNo(rows[b].id)

\* the steps of a started instance in SpecBatch: the store returns the
\* fetched rows in the order of the table, and no worker thread ends with
\* an exception
BatchSteps(j) ==
    \/ FetchPending(j) /\ InTableOrder(pending_urls_data'[j])
    \/ ClaimBatch(j)
    \/ SubmitAll(j)
    \/ \E k \in DOMAIN futures[j] : WorkerReturn(j, k, BatchOutcomes)
    \/ CollectFuture(j)
    \/ PoolJoin(j)
    \/ WriteResult(j)

\* SpecBatch: the job runs, one invocation after the other, on a table with
\* more pending rows than one batch takes
NextBatch ==
    \/ \E j \in Jobs : Alone(j) /\ Startup(j)
    \/ \E j \in Jobs : BatchSteps(j)

SpecBatch == InitBatch /\ [][NextBatch]_vars

\* SpecFair: Spec where a started instance keeps running: the interpreter
\* executes the next statement, every store statement returns or fails and
\* every worker thread ends its request (requests.post returns, raises or
\* hits its timeout of line 56)
SpecFair ==
    /\ Init
    /\ [][Next]_vars
    /\ \A j \in Jobs : WF_vars(Steps(j, RequestOutcomes))

----------------------------------------------------------------------------
(* Notions the claims use *)

\* the ids job j has sent to the processing endpoint and still works on
Dispatched(j) ==
    {futures[j][k].row_id : k \in Running(futures[j])}
    \cup {futures[j][k].row_id :
            k \in {m \in 1..Len(futures[j]) : FinishedFuture(futures[j][m])}}

\* the status of the work item id: that of its row in the source table
ItemStatus(id) == tables["videos"][id].status

\* the steps of the life cycle of a work item
Lifecycle ==
    { <<"PENDING", "PROCESSING">>,
      <<"PROCESSING", "COMPLETED">>,
      <<"PROCESSING", "FAILED_PROCESSING">> }

\* the ids of the claim statements of job j that completed
ClaimedBy(j) ==
    UNION { statements[j][n].ids :
              n \in { m \in 1..Len(statements[j]) :
                        /\ statements[j][m].op = "claim"
                        /\ statements[j][m].outcome = "ok" } }

\* job j issues a statement to the store in this step
Issues(j) == Len(statements'[j]) = Len(statements[j]) + 1

LastStmt(j) == statements'[j][Len(statements'[j])]

----------------------------------------------------------------------------
(* Claims *)

\* C1: of two invocations running at the same time, no work item id is
\* dispatched to the processing endpoint by both. (Stated as the claim
\* states it; the code does not keep it.)
C1_NoDoubleDispatch ==
    \A a, b \in Jobs : a # b => Dispatched(a) \cap Dispatched(b) = {}

\* C2: every change of an item's status is a step of the life cycle
\* PENDING -> PROCESSING -> {COMPLETED, FAILED_PROCESSING}; the claim step
\* sets PROCESSING only on PENDING items and write-result changes only
\* PROCESSING items. (Stated as the claim states it; the code does not keep
\* it.)
C2_LifecycleOnly ==
    [][ \A id \in Ids :
          /\ ItemStatus(id)' # ItemStatus(id) =>
                <<ItemStatus(id), ItemStatus(id)'>> \in Lifecycle
          /\ \A j \in Jobs :
                (Issues(j) /\ LastStmt(j).outcome = "ok"
                           /\ id \in LastStmt(j).ids) =>
                   CASE LastStmt(j).op = "claim" -> ItemStatus(id) = "PENDING"
                     [] LastStmt(j).op = "write" ->
                           (BIGQUERY_TABLE_TARGET = "videos" =>
                                ItemStatus(id) = "PROCESSING")
                     [] OTHER -> TRUE ]_vars

\* C3: once a row has been written COMPLETED or FAILED_PROCESSING, no
\* statement of an invocation that started after that changes the row
\* (its status, its context or anything else)
C3_TerminalKept ==
    [][ \A j \in Jobs :
          Issues(j) =>
             \A r \in sealed[j] : tables'[r[1]][r[2]] = tables[r[1]][r[2]] ]_vars

\* C3 witness: an invocation that started when item "7" was terminal has
\* claimed and written item "8", and item "7" is still terminal
C3_Witness ==
    \E j \in Jobs :
       /\ <<"videos", "7">> \in sealed[j]
       /\ ClaimedBy(j) = {"8"}
       /\ \E n \in 1..Len(statements[j]) :
             statements[j][n] = Stmt("write", {"8"}, "ok")
       /\ ItemStatus("7") \in Terminal

\* C4: a fetch issued after the claim statement of another invocation has
\* completed returns none of the ids of that claim
C4_ClaimedNotFetched ==
    [][ \A j \in Jobs :
          (Issues(j) /\ LastStmt(j).op = "fetch") =>
             \A k \in Jobs \ {j} : LastStmt(j).ids \cap ClaimedBy(k) = {} ]_vars

\* C4 witness: while an invocation that claimed both items is still running,
\* another invocation has fetched and its fetch returned nothing
C4_Witness ==
    \E j, k \in Jobs :
       /\ j # k
       /\ ClaimedBy(k) = {"7", "8"}
       /\ pc[k] \in {"submit", "collect", "join", "write"}
       /\ statements[j] = <<Stmt("fetch", {}, "ok")>>

\* the jobs that are in the dispatcher or past it, with their outcomes
InDispatch(j) == pc[j] \in {"collect", "join", "write"}

\* the text begins with the error marker
HasErrorMarker(text) == Len(text) >= 6 /\ SubSeq(text, 1, 6) = "ERROR:"

\* C5: the dispatch step ends with exactly one outcome per fetched item, in
\* processed_results; the outcome of an item is the one of its own call,
\* whatever the calls of the other items did; and an invocation that
\* claimed n items reports n processed items
C5_OneOutcomePerItem ==
    \A j \in Jobs :
       /\ pc[j] \in {"join", "write"} =>
             Len(processed_results[j]) = Len(pending_urls_data[j])
       /\ InDispatch(j) =>
             /\ Len(processed_results[j]) = cursor[j] - 1
                   \/ pc[j] # "collect"
             /\ \A k \in 1..Len(processed_results[j]) :
                   /\ processed_results[j][k].id = pending_urls_data[j][k].id
                   /\ processed_results[j][k].data =
                         Classify(pending_urls_data[j][k].id, observed[j][k])
       /\ (pc[j] = "done" /\ ClaimedBy(j) # {}) =>
             \E updated \in 0..NumItems :
                result[j] = Return(
                    CompleteMsg(Cardinality(ClaimedBy(j)), updated), 200)

\* C5 witness: the dispatch step has ended with two outcomes, the first for
\* a call that raised and the second for a call that returned its text
C5_Witness ==
    \E j \in Jobs :
       /\ pc[j] = "join"
       /\ Len(processed_results[j]) = 2
       /\ observed[j][1].kind = "Exception"
       /\ processed_results[j][1].data.status = "FAILED_PROCESSING"
       /\ processed_results[j][2].data.status = "COMPLETED"

\* the call of the k-th item of job j exceeded the timeout: in the HTTP
\* request, or in future.result
HttpTimeout(j, k) ==
    observed[j][k].kind = "content" /\ futures[j][k].req = "Timeout"

ResultTimeout(j, k) == observed[j][k].kind = "TimeoutError"

\* C6 as stated: a call that exceeds the timeout, in the HTTP request or in
\* future.result, gives FAILED_PROCESSING and a context that contains the
\* id of the item
C6_TimeoutNamesId ==
    \A j \in Jobs :
       InDispatch(j) =>
          \A k \in 1..Len(observed[j]) :
             (HttpTimeout(j, k) \/ ResultTimeout(j, k)) =>
                /\ processed_results[j][k].data.status = "FAILED_PROCESSING"
                /\ Contains(processed_results[j][k].data.context,
                            pending_urls_data[j][k].id)

\* C6 as amended: a call that exceeds the timeout gives FAILED_PROCESSING;
\* the context contains the id of the item when the timeout fires in
\* future.result, and the url of the item when it fires in the HTTP request
C6_TimeoutNamesItem ==
    \A j \in Jobs :
       InDispatch(j) =>
          \A k \in 1..Len(observed[j]) :
             /\ (HttpTimeout(j, k) \/ ResultTimeout(j, k)) =>
                   processed_results[j][k].data.status = "FAILED_PROCESSING"
             /\ ResultTimeout(j, k) =>
                   Contains(processed_results[j][k].data.context,
                            pending_urls_data[j][k].id)
             /\ HttpTimeout(j, k) =>
                   Contains(processed_results[j][k].data.context,
                            pending_urls_data[j][k].url)

\* C6 witness: one invocation has an outcome for a timeout of future.result
\* and an outcome for a timeout of the HTTP request
C6_Witness ==
    \E j \in Jobs :
       /\ InDispatch(j)
       /\ Len(observed[j]) = 2
       /\ ResultTimeout(j, 1)
       /\ HttpTimeout(j, 2)

\* C7: for a text returned by the processing client, the outcome is
\* FAILED_PROCESSING if the text begins with "ERROR:" and COMPLETED
\* otherwise, and in both cases the context is the text unchanged
C7_TextClassified ==
    \A j \in Jobs :
       InDispatch(j) =>
          \A k \in 1..Len(observed[j]) :
             observed[j][k].kind = "content" =>
                /\ processed_results[j][k].data.context = observed[j][k].text
                /\ processed_results[j][k].data.status =
                      IF HasErrorMarker(observed[j][k].text)
                      THEN "FAILED_PROCESSING" ELSE "COMPLETED"

\* C7 witness: one invocation has the outcome of a text with the marker and
\* the outcome of a text that begins with "E" but not with the marker
C7_Witness ==
    \E j \in Jobs :
       /\ InDispatch(j)
       /\ Len(observed[j]) = 2
       /\ observed[j][1] =
             [kind |-> "content", text |-> "ERROR: no video at this URL"]
       /\ observed[j][2] =
             [kind |-> "content",
              text |-> "Error processing video: quota exceeded"]
       /\ processed_results[j][1].data.status = "FAILED_PROCESSING"
       /\ processed_results[j][2].data.status = "COMPLETED"

\* C8: when the endpoint fails to generate content for an item, its response
\* begins with "ERROR:" and the job records the item as FAILED_PROCESSING.
\* (Stated as the claim states it; the code does not keep it.)
C8_EndpointFailureFails ==
    \A j \in Jobs :
       InDispatch(j) =>
          \A k \in 1..Len(observed[j]) :
             (observed[j][k].kind = "content"
                 /\ futures[j][k].req = "generate_raise") =>
                /\ HasErrorMarker(observed[j][k].text)
                /\ processed_results[j][k].data.status = "FAILED_PROCESSING"

\* C9: an invocation whose fetch returns no row returns the "no pending
\* work" result with code 200 and issues no other statement
C9_NoPendingNoWrites ==
    \A j \in Jobs :
       (statements[j] # <<>> /\ statements[j][1] = Stmt("fetch", {}, "ok")) =>
          /\ pc[j] = "done"
          /\ result[j] = Return("No pending URLs found. Job finished.", 200)
          /\ Len(statements[j]) = 1

\* C9 witness: an invocation found no pending row and has returned
C9_Witness ==
    \E j \in Jobs :
       /\ statements[j] = <<Stmt("fetch", {}, "ok")>>
       /\ result[j].code = 200
       /\ \A id \in Ids : ItemStatus(id) # "PENDING"

\* C10: an invocation whose fetch fails because the table is absent returns
\* ("Source table not found.", 404) and issues no other statement; and an
\* invocation that returns 404 has attempted no write-result
C10_NotFound ==
    \A j \in Jobs :
       /\ (statements[j] # <<>>
             /\ statements[j][1] = Stmt("fetch", {}, "NotFound")) =>
             /\ pc[j] = "done"
             /\ result[j] = Return("Source table not found.", 404)
             /\ Len(statements[j]) = 1
       /\ result[j].code = 404 =>
             \A n \in 1..Len(statements[j]) : statements[j][n].op # "write"

\* C10 witness: an invocation met the absent table in its fetch and returned
C10_Witness ==
    \E j \in Jobs :
       /\ statements[j] = <<Stmt("fetch", {}, "NotFound")>>
       /\ result[j].code = 404

\* C11: when URL_PROCESSOR_SERVICE_URL is not set in the environment, the
\* job fails at startup with a configuration error and issues no statement
\* to the store. (Stated as the claim states it; the code does not keep it.)
C11_UnsetUrlFailsAtStartup ==
    environ["URL_PROCESSOR_SERVICE_URL"] = Unset =>
       \A j \in Jobs :
          pc[j] # "init" =>
             /\ pc[j] = "done"
             /\ result[j].kind = "raise" \/ result[j].code = 500
             /\ statements[j] = <<>>

\* job j has issued a claim statement that failed
ClaimFailed(j) ==
    /\ statements[j] # <<>>
    /\ statements[j][Len(statements[j])].op = "claim"
    /\ statements[j][Len(statements[j])].outcome # "ok"

\* C12, as the claim states it: when the claim statement fails, the
\* invocation ends in a fatal failure (an exception, no return code), no
\* item is dispatched, no write-result is issued and every fetched item is
\* still PENDING. (The code does not keep it.)
C12_ClaimFailureFatal ==
    [][ \A j \in Jobs :
          (Issues(j) /\ ClaimFailed(j)') =>
             /\ pc'[j] = "done"
             /\ result'[j].kind = "raise"
             /\ futures'[j] = <<>>
             /\ \A id \in LastStmt(j).ids : ItemStatus(id)' = "PENDING" ]_vars

\* C12, amended: when the claim statement fails, the invocation ends at
\* once: with ("Source table not found.", 404) when the failure is NotFound
\* and with a propagated exception otherwise; the failed claim is its last
\* statement (no write-result), no item is dispatched, the store is not
\* changed and every fetched item is still PENDING
C12_ClaimFailureEnds ==
    /\ [] (\A j \in Jobs :
             (\E n \in 1..Len(statements[j]) :
                 /\ statements[j][n].op = "claim"
                 /\ statements[j][n].outcome # "ok") =>
                /\ ClaimFailed(j)
                /\ pc[j] = "done"
                /\ futures[j] = <<>>)
    /\ [][ \A j \in Jobs :
             (Issues(j) /\ ClaimFailed(j)') =>
                /\ pc'[j] = "done"
                /\ result'[j] =
                      IF LastStmt(j).outcome = "NotFound"
                      THEN Return("Source table not found.", 404)
                      ELSE Raise("An unhandled error occurred in the job")
                /\ futures'[j] = <<>>
                /\ tables' = tables
                /\ \A id \in LastStmt(j).ids :
                      ItemStatus(id)' = "PENDING" ]_vars

\* C12 witness: the claim statement of an invocation failed with an error
\* other than NotFound, the exception propagated and items "7" and "8",
\* both fetched, are PENDING
C12_Witness ==
    \E j \in Jobs :
       /\ ClaimFailed(j)
       /\ statements[j][2] = Stmt("claim", {"7", "8"}, "Error")
       /\ result[j].kind = "raise"
       /\ ItemStatus("7") = "PENDING"
       /\ ItemStatus("8") = "PENDING"

\* C13: in the write loop every step is the write-result attempt for the
\* outcome at the cursor; whether it succeeds or fails the loop goes on to
\* the next outcome, so that write-result is attempted once for every
\* outcome, and after the last one the invocation returns code 200; when
\* it returns, every item whose write did not succeed has status PROCESSING
C13_WriteFailureIsolated ==
    /\ [] (\A j \in Jobs :
             pc[j] = "write" =>
                /\ cursor[j] \in 1..Len(processed_results[j])
                /\ {processed_results[j][n].id :
                        n \in 1..Len(processed_results[j])} = ClaimedBy(j)
                /\ Len(processed_results[j]) = Cardinality(ClaimedBy(j)))
    /\ [][ \A j \in Jobs :
             pc[j] = "write" =>
                /\ Issues(j) =>
                      /\ LastStmt(j).op = "write"
                      /\ LastStmt(j).ids = {processed_results[j][cursor[j]].id}
                /\ IF cursor[j] < Len(processed_results[j])
                   THEN /\ pc'[j] = "write"
                        /\ cursor'[j] = cursor[j] + 1
                        /\ processed_results'[j] = processed_results[j]
                   ELSE /\ pc'[j] = "done"
                        /\ result'[j].code = 200
                        /\ \A n \in 1..Len(processed_results[j]) :
                              LET id == processed_results[j][n].id
                              IN  (\A m \in 1..Len(statements'[j]) :
                                      statements'[j][m]
                                         # Stmt("write", {id}, "ok")) =>
                                   tables'["videos"][id].status
                                      = "PROCESSING" ]_vars

\* C13 witness: the write of item "7" failed, the write of item "8" was
\* attempted after it and succeeded, the invocation returned 200 and item
\* "7" is still PROCESSING
C13_Witness ==
    \E j \in Jobs :
       /\ Len(statements[j]) = 4
       /\ statements[j][3] = Stmt("write", {"7"}, "Error")
       /\ statements[j][4] = Stmt("write", {"8"}, "ok")
       /\ result[j].code = 200
       /\ ItemStatus("7") = "PROCESSING"
       /\ ItemStatus("8") \in Terminal

\* the ids whose write-result of job j succeeded, after the step
WrittenIds(j) ==
    { id \in Ids :
        \E n \in 1..Len(statements'[j]) :
           statements'[j][n] = Stmt("write", {id}, "ok") }

\* C14: when an invocation returns 200 after claiming a non-empty batch,
\* every item it claimed either has the terminal status and the context of
\* its outcome, or is still PROCESSING and is counted as a failed write in
\* the report; no item is left PROCESSING while counted as successfully
\* updated. (Stated as the claim states it; the code does not keep it.)
C14_NoneLost ==
    [][ \A j \in Jobs :
          (pc[j] = "write" /\ pc'[j] = "done") =>
             /\ result'[j] =
                   Return(CompleteMsg(Len(processed_results[j]),
                                      Cardinality(WrittenIds(j))), 200)
             /\ \A n \in 1..Len(processed_results[j]) :
                   LET entry == processed_results[j][n]
                       row   == tables'["videos"][entry.id]
                   IN  \/ /\ row.status = entry.data.status
                          /\ row.context = entry.data.context
                       \/ /\ row.status = "PROCESSING"
                          /\ entry.id \notin WrittenIds(j) ]_vars

\* the number of outcomes of job j with the given status
CountStatus(j, status) ==
    Cardinality({ n \in 1..Len(processed_results[j]) :
                     processed_results[j][n].data.status = status })

\* the four counts of the aggregate report, at the step that ends job j
ReportCounts(j) ==
    [ claimed           |-> Cardinality(ClaimedBy(j)),
      completed         |-> CountStatus(j, "COMPLETED"),
      failed_processing |-> CountStatus(j, "FAILED_PROCESSING"),
      write_failed      |->
          Len(processed_results[j]) - Cardinality(WrittenIds(j)) ]

InWriteLoop(j) ==
    \/ pc[j] = "write"
    \/ \E n \in 1..Len(statements[j]) : statements[j][n].op = "write"

\* C16: in one invocation the claim statement for all fetched ids has
\* completed before any processing call is submitted, and write-result is
\* not called before every claimed item has an outcome and every call has
\* ended (full barrier)
C16_FullBarrier ==
    \A j \in Jobs :
       /\ futures[j] # <<>> =>
             /\ ClaimedBy(j) =
                   {pending_urls_data[j][k].id :
                        k \in 1..Len(pending_urls_data[j])}
             /\ {futures[j][k].row_id : k \in 1..Len(futures[j])}
                   = ClaimedBy(j)
       /\ pc[j] \in {"init", "fetch", "claim", "submit"} =>
             /\ futures[j] = <<>>
             /\ ~InWriteLoop(j)
       /\ pc[j] \in {"collect", "join"} => ~InWriteLoop(j)
       /\ pc[j] = "write" =>
             /\ Len(processed_results[j]) = Len(futures[j])
             /\ \A k \in 1..Len(futures[j]) :
                   /\ processed_results[j][k].id = futures[j][k].row_id
                   /\ FinishedFuture(futures[j][k])

\* C16 witness: an invocation that claimed items "7" and "8" is in its write
\* loop, has written the first outcome, and one of its calls had not ended
\* when the dispatcher took its result
C16_Witness ==
    \E j \in Jobs :
       /\ pc[j] = "write"
       /\ cursor[j] = 2
       /\ ClaimedBy(j) = {"7", "8"}
       /\ \E k \in 1..Len(observed[j]) : observed[j][k].kind = "TimeoutError"

\* the number of write statements job j has issued for item id
WritesFor(j, id) ==
    Cardinality({ n \in 1..Len(statements[j]) :
                     /\ statements[j][n].op = "write"
                     /\ statements[j][n].ids = {id} })

\* C17: in one invocation each claimed item is submitted to the processing
\* endpoint exactly once: it has one future, no future is added after the
\* submit loop and a call that has ended (returned, faulted) or timed out
\* is not run again; and write-result is called exactly once for it: the
\* write loop takes each outcome once, in turn, and never issues a second
\* statement for an id
C17_ExactlyOnce ==
    /\ [] (\A j \in Jobs :
             \A id \in ClaimedBy(j) :
                /\ futures[j] # <<>> =>
                      Cardinality({ k \in 1..Len(futures[j]) :
                                       futures[j][k].row_id = id }) = 1
                /\ pc[j] = "write" =>
                      Cardinality({ n \in 1..Len(processed_results[j]) :
                                       processed_results[j][n].id = id }) = 1
                /\ WritesFor(j, id) <= 1
                /\ (pc[j] = "done" /\ result[j].code = 200
                       /\ BIGQUERY_TABLE_TARGET # "") => WritesFor(j, id) = 1)
    /\ [][ \A j \in Jobs :
             /\ (futures[j] # <<>> /\ futures'[j] # <<>>) =>
                   /\ Len(futures'[j]) = Len(futures[j])
                   /\ \A k \in 1..Len(futures[j]) :
                         /\ futures'[j][k].row_id = futures[j][k].row_id
                         /\ FinishedFuture(futures[j][k]) =>
                               futures'[j][k] = futures[j][k]
             /\ (pc[j] = "write" /\ pc'[j] = "write") =>
                   /\ cursor'[j] = cursor[j] + 1
                   /\ processed_results'[j] = processed_results[j] ]_vars

\* C17 witness: item "7" timed out in the dispatcher and its call ended
\* later; the invocation has returned with one write statement for item "7"
\* and one for item "8"
C17_Witness ==
    \E j \in Jobs :
       /\ pc[j] = "done"
       /\ result[j].code = 200
       /\ ClaimedBy(j) = {"7", "8"}
       /\ WritesFor(j, "7") = 1
       /\ WritesFor(j, "8") = 1
       /\ tables["videos"]["7"].status = "FAILED_PROCESSING"
       /\ Contains(tables["videos"]["7"].context, "Processing timed out")

\* C18: every invocation that has started ends, by returning (message,
\* code) or by raising, given that store statements and processing calls
\* end; in particular it does not stay at the join of the worker pool
C18_Terminates ==
    \A j \in Jobs :
       (pc[j] # "init") ~> (pc[j] = "done" /\ result[j].kind # "none")

\* C18 witness: an invocation went through the join of the pool with a
\* call that ended by an exception and has returned
C18_Witness ==
    \E j \in Jobs :
       /\ pc[j] = "done"
       /\ result[j].kind = "return"
       /\ \E n \in 1..Len(statements[j]) :
             /\ statements[j][n].op = "write"
             /\ Contains(tables["videos"]["7"].context,
                         "Unexpected error during result retrieval")

\* C19: in every state of an invocation the number of items it has claimed
\* is at most the batch size 5, and the number of its processing calls in
\* flight is at most the concurrency limit 5
C19_Bounded ==
    \A j \in Jobs :
       /\ Cardinality(ClaimedBy(j)) <= 5
       /\ Len(pending_urls_data[j]) <= 5
       /\ Cardinality(Running(futures[j])) <= 5

\* C19 witness: of six pending rows an invocation has claimed five, its five
\* processing calls are in flight together and the sixth row is PENDING
C19_Witness ==
    \E j \in Jobs :
       /\ Cardinality(ClaimedBy(j)) = 5
       /\ Cardinality(Running(futures[j])) = 5
       /\ Cardinality(PendingIds("videos")) = 1

\* C20: a statement of an invocation changes only rows whose id its fetch
\* returned: the claim and write-result statements leave status and context
\* of every other row as they are; no statement changes the url or the id
\* of a row, and nothing but a statement changes a table
C20_OnlyFetchedChange ==
    [][ /\ tables' # tables => \E j \in Jobs : Issues(j)
        /\ \A j \in Jobs :
              Issues(j) =>
                 \A t \in TableNames :
                    /\ DOMAIN tables'[t] = DOMAIN tables[t]
                    /\ \A id \in DOMAIN tables[t] :
                          /\ tables'[t][id].url = tables[t][id].url
                          /\ (statements'[j][1].op = "fetch"
                                /\ id \notin statements'[j][1].ids) =>
                                tables'[t][id] = tables[t][id] ]_vars

\* C20 witness: an invocation fetched item "8" only and wrote its outcome;
\* item "7", which it did not fetch, has the row it had before
C20_Witness ==
    \E j \in Jobs :
       /\ Len(statements[j]) = 3
       /\ statements[j][1] = Stmt("fetch", {"8"}, "ok")
       /\ statements[j][3] = Stmt("write", {"8"}, "ok")
       /\ tables["videos"]["8"].status \in Terminal
       /\ \E row \in InitialRows("7") : tables["videos"]["7"] = row

====
